---- MODULE Spec2Model ----
(***************************************************************************)
(* A model of hcf_backend/backend.py: the HCFManager remote-queue client   *)
(* (add_request / flush / read / delete) and the HCFBackend router         *)
(* (page_crawled / get_next_requests).                                     *)
(***************************************************************************)
EXTENDS Integers, Sequences, FiniteSets, TLC

(***************************************************************************)
(* Bounds of the model (not program constants).                            *)
(***************************************************************************)
MaxBatchSize == 3      \* batch_size is drawn from 0..MaxBatchSize
MaxLinksPerSlot == 4   \* add_request is called at most this often per slot
MaxLinks == 2          \* requests (seeds and links) the crawler hands to the backend
MaxPage == 2           \* links of one page_crawled call, seeds of one add_seeds call
MaxNext == 3           \* max_next_requests is drawn from 0..MaxNext
MaxQuota == 1          \* HCF_CONSUMER_MAX_* are 0 (no quota) or MaxQuota
MaxMemory == 1         \* HCF_MEMORY_QUEUE_SIZE in the model's settings
NBatches == 2          \* batches waiting in the consumer slot of the remote frontier
TickStep == 30         \* seconds the clock advances between two calls
MaxConsumed == 3       \* no read is issued once a consumption counter has reached this

(***************************************************************************)
(* Program constants.                                                      *)
(***************************************************************************)
hcf_retries == 10      \* HCFManager._hcf_retries
DELAY_HS_READ == 30    \* seconds
DEFAULT_HCF_PRODUCER_NUMBER_OF_SLOTS == 8
DEFAULT_HCF_CONSUMER_MAX_BATCHES == 0
DEFAULT_HCF_CONSUMER_MAX_REQUESTS == 0

\* Python's None, where a slot name (a string) may stand.
None == "<None>"

NSlots == 2            \* HCF_PRODUCER_NUMBER_OF_SLOTS in the model's settings

Digits == << "0", "1", "2", "3", "4", "5", "6", "7", "8", "9" >>

\* str(n) for an integer n >= 0
RECURSIVE Str(_)
Str(n) == IF n < 10 THEN Digits[n + 1] ELSE Str(n \div 10) \o Digits[(n % 10) + 1]

\* The slot names the producer writes to (the default prefix is empty).
Slots == {Str(k) : k \in 0..(NSlots - 1)}

VARIABLES
    \* ---- HCFManager (producer role) ----
    batch_size,             \* self._batch_size
    links_count,            \* self._links_count: slot -> int (defaultdict(int), by value)
    links_to_flush_count,   \* self._links_to_flush_count: slot -> int
    m_call,                 \* the last HCFManager call: [op, slot]
    m_ret,                  \* its return value
    hcf_calls,              \* the calls it made on the remote frontier (self._hcf), in order
    \* ---- module state ----
    log,                    \* TRUE: `from scrapy import log` succeeded; FALSE: log = None
    \* ---- HCFBackend ----
    pc,                     \* "new", "idle", "read" (get_next_requests about to read), "stopped"
    cfg,                    \* the attributes frontier_start sets from the settings
    memory_queue,           \* self.memory_queue (MemQueue)
    disk_queue,             \* self.disk_queue (DiskQueue), << >> while it is None
    n_consumed_batches,     \* self.n_consumed_batches
    n_consumed_requests,    \* self.n_consumed_requests
    delay_left,             \* self._delay_next_requests_from_hs - time.time(), -1 for any negative
    n_made,                 \* requests created by the crawler so far (their ids are 1..n_made)
    \* ---- the consumer slot of the remote frontier ----
    remote,                 \* its batches, oldest first
    \* ---- get_next_requests in progress: its locals ----
    gn,
    \* ---- observations ----
    call,                   \* the get_next_requests call in progress or just ended
    last,                   \* the last call of the backend that ended: [op, outcome, resp]
    since_pull,             \* seconds since a call that read the remote queue last returned
                            \* (DELAY_HS_READ + 1: more than that), -1: never
    last_read               \* the read response just consumed: its batches and accepted requests

mvars == <<batch_size, links_count, links_to_flush_count, m_call, m_ret, hcf_calls>>

bvars == <<log, pc, cfg, memory_queue, disk_queue, n_consumed_batches, n_consumed_requests,
           delay_left, n_made, remote, gn, call, last, since_pull, last_read>>

vars == <<mvars, bvars>>

Min(a, b) == IF a < b THEN a ELSE b
Max(a, b) == IF a > b THEN a ELSE b

(***************************************************************************)
(* HCFManager: the write path.                                             *)
(***************************************************************************)
RECURSIVE SumOver(_, _)
SumOver(d, S) ==
    IF S = {} THEN 0
    ELSE LET s == CHOOSE x \in S : TRUE IN d[s] + SumOver(d, S \ {s})

\* sum(d.values())
SumValues(d) == SumOver(d, DOMAIN d)

get_number_of_links(lc, slot) ==
    IF slot = None THEN SumValues(lc) ELSE lc[slot]

get_number_of_links_to_flush(fc, slot) ==
    IF slot = None THEN SumValues(fc) ELSE fc[slot]

\* Mutant of FlushTouched: a queue-wide flush resets no counter.
FlushTouchedSlot(fc, slot) == IF slot = None THEN {} ELSE {slot}

\* Mutant of FlushTouched: a per-slot flush that resets every slot.
FlushTouchedAll(fc, slot) == DOMAIN fc

\* The slots whose flush counter flush(slot) zeroes.
FlushTouched(fc, slot) == IF slot = None THEN DOMAIN fc ELSE {slot}

\* Mutant of FlushNeeded: flush even when nothing is pending.
FlushNeededAlways(n) == TRUE

\* `if n_links_to_flush:`
FlushNeeded(n) == n # 0

\* flush(slot): the new flush counters, the return value and the remote calls.
flush(fc, slot) ==
    LET n_links_to_flush == get_number_of_links_to_flush(fc, slot) IN
    IF FlushNeeded(n_links_to_flush)
    THEN [fc    |-> [s \in DOMAIN fc |->
                        IF s \in FlushTouched(fc, slot) THEN 0 ELSE fc[s]],
          ret   |-> n_links_to_flush,
          calls |-> IF slot = None
                    THEN << [op |-> "flush", slot |-> None] >>
                    ELSE << [op |-> "writer.flush", slot |-> slot] >>]
    ELSE [fc |-> fc, ret |-> n_links_to_flush, calls |-> << >>]

\* Mutant of BatchReached: flush only once the counter exceeds the batch size.
BatchReachedStrict(bs, n) == bs # 0 /\ n > bs

\* `if self._batch_size and self._links_to_flush_count[slot] >= self._batch_size:`
BatchReached(bs, n) == bs # 0 /\ n >= bs

\* Mutant of CountAdded: the link counter is not incremented.
CountAddedNot(d, slot) == d

\* `d[slot] += 1`
CountAdded(d, slot) == [d EXCEPT ![slot] = @ + 1]

\* add_request(slot, request): the new counters, the return value and the remote calls.
add_request(bs, lc, fc, slot) ==
    LET lc1 == CountAdded(lc, slot)
        fc1 == [fc EXCEPT ![slot] = @ + 1]
        add == << [op |-> "add", slot |-> slot] >>
    IN  IF BatchReached(bs, fc1[slot])
        THEN LET f == flush(fc1, slot) IN
             [lc |-> lc1, fc |-> f.fc, ret |-> f.ret, calls |-> add \o f.calls]
        ELSE [lc |-> lc1, fc |-> fc1, ret |-> 0, calls |-> add]

(***************************************************************************)
(* HCFManager: read and delete, with their retry loop.                     *)
(***************************************************************************)
\* requests_lib.exceptions caught by read and delete.
TransportErrors == {"ReadTimeout", "ConnectionError", "RequestException"}

\* What one call of self._hcf.read / self._hcf.delete can do: succeed, raise a
\* transport error, or raise something else.
Outcomes == {"ok", "other"} \cup TransportErrors

\* time.sleep(60 * (i + 1))
SleepSeconds(i) == 60 * (i + 1)

\* One pass of `for i in range(self._hcf_retries)` with the remote call ending in
\* `outcome`: "return" (return / break), "sleep" (an except clause, then
\* time.sleep), "AttributeError" (the except clause evaluates log.ERROR while log
\* is None) or "raise" (no except clause matches).
RetryStep(i, outcome) ==
    IF outcome = "ok" THEN "return"
    ELSE IF outcome \in TransportErrors
         THEN IF log THEN "sleep" ELSE "AttributeError"
         ELSE "raise"

\* `for i in range(self._hcf_retries)`: is there an attempt number i?
RetriesLeft(i) == i < hcf_retries

\* The remote's answer to attempt i (counted from 0); past the end of `outcomes`
\* it keeps giving the last one.
Answer(outcomes, i) == outcomes[Min(i + 1, Len(outcomes))]

\* The retry loop from attempt i on, against a remote that answers attempt j
\* (counted from 0) with outcomes[j + 1]: how it ends ("return", "exhausted",
\* "raise", "AttributeError"), the attempts made, the seconds slept and the
\* exception that leaves it.
RECURSIVE RetryLoop(_, _)
RetryLoop(i, outcomes) ==
    IF ~RetriesLeft(i)
    THEN [end |-> "exhausted", attempts |-> i, slept |-> 0, exc |-> ""]
    ELSE LET step == RetryStep(i, Answer(outcomes, i)) IN
         IF step = "sleep"
         THEN LET r == RetryLoop(i + 1, outcomes) IN
              [r EXCEPT !.slept = @ + SleepSeconds(i)]
         ELSE [end |-> step, attempts |-> i + 1, slept |-> 0,
               exc |-> IF step = "return" THEN ""
                       ELSE IF step = "raise" THEN Answer(outcomes, i) ELSE step]

\* read(slot, mincount): `response` is what self._hcf.read returns when it succeeds.
read(outcomes, response) ==
    LET r == RetryLoop(0, outcomes) IN
    [ret |-> IF r.end = "return" THEN response ELSE << >>,
     end |-> r.end, attempts |-> r.attempts, slept |-> r.slept, exc |-> r.exc]

(***************************************************************************)
(* The queues (MemQueue, DiskQueue) and the remote frontier.               *)
(***************************************************************************)
\* A request as get_next_requests hands it out: the tier it waited in ("memory",
\* "disk", or "hcf" for the remote frontier), its identity and meta['depth'].
Request(tier, id, depth) == [tier |-> tier, id |-> id, depth |-> depth]

push(q, request) == Append(q, request)

pop(q) == [request |-> Head(q), queue |-> Tail(q)]

\* DiskQueue.push raises ValueError for a request it cannot serialize.
DiskPushFails(link) == ~link.ser

\* Batch b of the consumer slot: odd batches hold two items, even ones a single
\* item that HCF_MAKE_REQUEST turns down (returns None for).
RemoteBatch(b) ==
    [id |-> b,
     requests |-> [i \in 1..(1 + (b % 2)) |->
                      [fp |-> 10 * b + i, make |-> IF b % 2 = 0 THEN "None" ELSE "request"]]]

RemoteInit == [b \in 1..NBatches |-> RemoteBatch(b)]

\* self._hcf.delete(frontier, slot, ids)
RemoteDelete(batches, ids) ==
    SelectSeq(batches, LAMBDA b : \A k \in 1..Len(ids) : ids[k] # b.id)

\* delete(slot, ids): the batches left in the slot.
delete(outcomes, batches, ids) ==
    LET r == RetryLoop(0, outcomes) IN
    [remote |-> IF r.end = "return" THEN RemoteDelete(batches, ids) ELSE batches,
     end |-> r.end, attempts |-> r.attempts, slept |-> r.slept, exc |-> r.exc]

\* The remote's answers to the attempts of one read or delete: f transport errors
\* of one kind, then success or another error.
Plan(f, e, t) == [j \in 1..(f + 1) |-> IF j <= f THEN e ELSE t]

\* The plans tried: success and failure at once, after one transport error of
\* each kind, and transport errors until the retries are used up.
Plans ==
    {Plan(0, "ReadTimeout", "ok"), Plan(0, "ReadTimeout", "other"),
     Plan(1, "ReadTimeout", "ok"), Plan(1, "ConnectionError", "other"),
     Plan(hcf_retries - 1, "RequestException", "ok"),
     Plan(hcf_retries, "ConnectionError", "ok")}

(***************************************************************************)
(* HCFBackend: the quotas.                                                 *)
(***************************************************************************)
\* Mutant of _consumer_max_batches_reached: > for >=.
_consumer_max_batches_reached_late(n) ==
    IF cfg.hcf_consumer_max_batches = 0 THEN FALSE
    ELSE n > cfg.hcf_consumer_max_batches

_consumer_max_batches_reached(n) ==
    IF cfg.hcf_consumer_max_batches = 0 THEN FALSE
    ELSE n >= cfg.hcf_consumer_max_batches

_consumer_max_requests_reached(n) ==
    IF cfg.hcf_consumer_max_requests = 0 THEN FALSE
    ELSE n >= cfg.hcf_consumer_max_requests

\* Mutant of QuotaReached: `and` for `or`.
QuotaReachedBoth(nb, nr) ==
    _consumer_max_batches_reached(nb) /\ _consumer_max_requests_reached(nr)

\* `self._consumer_max_batches_reached() or self._consumer_max_requests_reached()`
QuotaReached(nb, nr) ==
    _consumer_max_batches_reached(nb) \/ _consumer_max_requests_reached(nr)

(***************************************************************************)
(* HCFBackend: slot assignment.                                            *)
(***************************************************************************)
HexDigits == << "0", "1", "2", "3", "4", "5", "6", "7", "8", "9",
                "a", "b", "c", "d", "e", "f" >>

HexVal(c) == (CHOOSE k \in 1..16 : HexDigits[k] = c) - 1

\* Mutant of IntBase16: the digits are read in base 10.
RECURSIVE IntBase10(_)
IntBase10(fp) ==
    IF fp = << >> THEN 0
    ELSE 10 * IntBase10(SubSeq(fp, 1, Len(fp) - 1)) + HexVal(fp[Len(fp)])

\* int(fingerprint, 16), the fingerprint a sequence of hex digits
RECURSIVE IntBase16(_)
IntBase16(fp) ==
    IF fp = << >> THEN 0
    ELSE 16 * IntBase16(SubSeq(fp, 1, Len(fp) - 1)) + HexVal(fp[Len(fp)])

_get_producer_slot_name(slotno) == cfg.hcf_producer_slot_prefix \o slotno

_producer_get_slot_callback(meta) ==
    IF "hcf_producer_slot" \in DOMAIN meta THEN meta.hcf_producer_slot
    ELSE LET n_slots == IF "hcf_producer_number_of_slots" \in DOMAIN meta
                        THEN meta.hcf_producer_number_of_slots
                        ELSE cfg.hcf_producer_number_of_slots
             slotno == Str(IntBase16(meta.fingerprint) % n_slots)
         IN  _get_producer_slot_name(slotno)

(***************************************************************************)
(* HCFBackend: page_crawled.                                               *)
(***************************************************************************)
\* The fingerprints of the links the crawler finds.
Fingerprints == << << "a" >>, << "1", "f" >>, << "2", "0", "b" >> >>

\* A link the crawler found: `store` is what a custom HCF_STORE answers for it.
Link(id, ser, store) ==
    [id |-> id, ser |-> ser, store |-> store, depth |-> 0,
     meta |-> [fingerprint |-> Fingerprints[((id - 1) % Len(Fingerprints)) + 1]]]

\* Mutant of hcf_store: a custom HCF_STORE is ignored.
hcf_store_default(link) == cfg.producer

\* self.hcf_store(request): HCF_STORE, by default _is_hcf (`return self.producer`)
hcf_store(link) == IF cfg.custom_store THEN link.store ELSE cfg.producer

\* _page_crawled(requests) run to its end by list(): acc holds the producer's
\* counters, the remote calls made, the requests yielded and the exception raised.
RECURSIVE _page_crawled(_, _, _)
_page_crawled(links, i, acc) ==
    IF i > Len(links) \/ acc.exc # "" THEN acc
    ELSE LET link == links[i] IN
         IF hcf_store(link)
         THEN IF ~cfg.producer
              THEN [acc EXCEPT !.exc = "AssertionError"]
              ELSE LET slot == _producer_get_slot_callback(link.meta)
                       r == add_request(batch_size, acc.lc, acc.fc, slot)
                   IN  _page_crawled(links, i + 1,
                           [acc EXCEPT !.lc = r.lc, !.fc = r.fc, !.calls = @ \o r.calls,
                                       !.m_call = [op |-> "add_request", slot |-> slot],
                                       !.m_ret = r.ret])
         ELSE _page_crawled(links, i + 1,
                  [acc EXCEPT !.direct = Append(@, link)])

\* Mutant of ToMem: the size of the memory queue is ignored.
ToMemIgnoringSize(direct_requests) == Len(direct_requests)

\* `to_mem`, lines 288-290
ToMem(direct_requests) ==
    IF cfg.disk THEN cfg.max_memory_queue - Len(memory_queue) ELSE Len(direct_requests)

\* `for request in memory_requests:` lines 293-295
RECURSIVE PushMemory(_, _, _)
PushMemory(reqs, i, mem) ==
    IF i > Len(reqs) THEN mem
    ELSE PushMemory(reqs, i + 1,
             push(mem, Request("memory", reqs[i].id, reqs[i].depth + 1)))

\* `for request in direct_requests:` lines 296-301; st holds both queues and the
\* exception raised.
RECURSIVE PushDirect(_, _, _)
PushDirect(reqs, i, st) ==
    IF i > Len(reqs) \/ st.exc # "" THEN st
    ELSE IF ~cfg.disk
         THEN [st EXCEPT !.exc = "AttributeError"]        \* self.disk_queue is None
         ELSE IF DiskPushFails(reqs[i])
              THEN IF log
                   THEN PushDirect(reqs, i + 1,
                            [st EXCEPT !.mem = push(@, Request("memory", reqs[i].id, reqs[i].depth))])
                   ELSE [st EXCEPT !.exc = "AttributeError"]   \* log.WARNING, log = None
              ELSE PushDirect(reqs, i + 1,
                       [st EXCEPT !.disk = push(@, Request("disk", reqs[i].id, reqs[i].depth))])

\* page_crawled(response, links): the state it leaves and the exception it raised.
page_crawled(links) ==
    LET acc == _page_crawled(links, 1,
                   [lc |-> links_count, fc |-> links_to_flush_count, calls |-> << >>,
                    m_call |-> m_call, m_ret |-> m_ret, direct |-> << >>, exc |-> ""])
        to_mem == ToMem(acc.direct)
        n == Len(acc.direct)
        memory_requests == IF to_mem > 0 THEN SubSeq(acc.direct, 1, Min(to_mem, n)) ELSE << >>
        direct_requests == IF to_mem > 0 THEN SubSeq(acc.direct, to_mem + 1, n) ELSE acc.direct
        st == PushDirect(direct_requests, 1,
                  [mem |-> PushMemory(memory_requests, 1, memory_queue),
                   disk |-> disk_queue, exc |-> ""])
    IN  IF acc.exc # ""
        THEN [acc |-> acc, mem |-> memory_queue, disk |-> disk_queue, exc |-> acc.exc]
        ELSE [acc |-> acc, mem |-> st.mem, disk |-> st.disk, exc |-> st.exc]

(***************************************************************************)
(* HCFBackend: get_next_requests and _get_requests_from_hs.                *)
(***************************************************************************)
\* Mutant of Clamp: the request quota is ignored.
ClampNot(max_next_requests) == max_next_requests

\* lines 304-305
Clamp(max_next_requests) ==
    IF cfg.hcf_consumer_max_requests > 0
    THEN Min(max_next_requests, cfg.hcf_consumer_max_requests - n_consumed_requests)
    ELSE max_next_requests

\* `while queue and requests_count < max_next_requests: requests.append(queue.pop())`
RECURSIVE Drain(_, _, _)
Drain(queue, requests, max_next_requests) ==
    IF queue # << >> /\ Len(requests) < max_next_requests
    THEN LET p == pop(queue) IN
         Drain(p.queue, Append(requests, p.request), max_next_requests)
    ELSE [queue |-> queue, requests |-> requests]

\* Mutant of DrainLocal: the disk queue is drained before the memory queue.
DrainLocalDiskFirst(mem, disk, max_next_requests) ==
    LET d == Drain(disk, << >>, max_next_requests)
        m == Drain(mem, d.requests, max_next_requests)
    IN  [mem |-> m.queue, disk |-> d.queue, requests |-> m.requests]

\* lines 307-315: the memory queue, then the disk queue
DrainLocal(mem, disk, max_next_requests) ==
    LET m == Drain(mem, << >>, max_next_requests)
        d == Drain(disk, m.requests, max_next_requests)
    IN  [mem |-> m.queue, disk |-> d.queue, requests |-> d.requests]

\* lines 317-318; `self._delay_next_requests_from_hs < time.time()` is delay_left < 0
PullsFromHs(requests) ==
    /\ cfg.consumer
    /\ ~QuotaReached(n_consumed_batches, n_consumed_requests)
    /\ (requests = << >> \/ delay_left < 0)

\* lines 329-330, the test of the pull loop
HsLoopTest(g, nb, nr) ==
    /\ g.data
    /\ Len(g.return_requests) < g.n_min_requests
    /\ ~QuotaReached(nb, nr)

\* Mutant of ScanRequests: a request is built from every item.
ScanRequestsKeepsAll(items, i, out) ==
    out \o [j \in 1..(Len(items) - i + 1) |-> Request("hcf", items[i + j - 1].fp, 0)]

\* `for fingerprint, qdata in requests:` lines 338-347: the requests built
RECURSIVE ScanRequests(_, _, _)
ScanRequests(items, i, out) ==
    IF i > Len(items) THEN out
    ELSE ScanRequests(items, i + 1,
             IF items[i].make = "None" THEN out
             ELSE Append(out, Request("hcf", items[i].fp, 0)))

\* `for batch in self.consumer.read(...)` lines 333-350: st holds return_requests,
\* consumed_batches_ids, n_consumed_requests and data
RECURSIVE ScanBatches(_, _, _)
ScanBatches(batches, i, st) ==
    IF i > Len(batches) THEN st
    ELSE LET made == ScanRequests(batches[i].requests, 1, << >>) IN
         ScanBatches(batches, i + 1,
             [return_requests |-> st.return_requests \o made,
              consumed_batches_ids |-> Append(st.consumed_batches_ids, batches[i].id),
              n_consumed_requests |-> st.n_consumed_requests + Len(made),
              data |-> TRUE])

\* Mutant of DelayAfterPull: the throttle is never armed.
DelayAfterPullNone == 0 - 1

\* line 321: time.time() + DELAY_HS_READ, less the current time
DelayAfterPull == DELAY_HS_READ

(***************************************************************************)
(* The backend as the crawler drives it.                                   *)
(***************************************************************************)
GnIdle ==
    [max_next_requests |-> 0, requests |-> << >>, n_min_requests |-> 0,
     return_requests |-> << >>, data |-> FALSE, consumed_batches_ids |-> << >>]

\* The get_next_requests call in progress or just ended: its argument, the
\* requests counted as consumed when it was made, whether it issued a read, and
\* the number of requests its last read response added.
NoCall ==
    [max_next_requests |-> 0, n_consumed_requests |-> 0, read_issued |-> FALSE,
     last_nr |-> 0]

\* The last read response: how read ended, its batches, the requests built from
\* them, and how the delete that followed ended.
NoRead == [end |-> "none", nb |-> 0, nr |-> 0, del_end |-> "none"]

NoLast == [op |-> "none", outcome |-> "none", resp |-> << >>]

Ended(op, outcome, resp) == [op |-> op, outcome |-> outcome, resp |-> resp]

\* d seconds pass.
DelayAfter(d) == Max(delay_left - d, -1)
SincePullAfter(d) ==
    IF since_pull < 0 THEN -1 ELSE Min(since_pull + d, DELAY_HS_READ + 1)

\* The HCF_* settings frontier_start finds: a consumer with either quota, both or
\* none, with or without a disk queue; without scrapy's log, a consumer with no
\* quota and no disk queue.
Settings ==
    {st \in [producer : {FALSE}, consumer : BOOLEAN, batch_size : {0},
             max_batches : {0, MaxQuota}, max_requests : {0, MaxQuota},
             disk : BOOLEAN, custom_store : {FALSE}] :
        /\ (~st.consumer => st.max_batches = 0 /\ st.max_requests = 0)
        /\ (~log => st.consumer /\ ~st.disk /\ st.max_batches = 0 /\ st.max_requests = 0)}

Init ==
    /\ batch_size = 0
    /\ links_count = [s \in Slots |-> 0]
    /\ links_to_flush_count = [s \in Slots |-> 0]
    /\ m_call = [op |-> "init", slot |-> None]
    /\ m_ret = 0
    /\ hcf_calls = << >>
    /\ log \in BOOLEAN
    /\ pc = "new"
    /\ cfg = [producer |-> FALSE, consumer |-> FALSE,
              hcf_consumer_max_batches |-> DEFAULT_HCF_CONSUMER_MAX_BATCHES,
              hcf_consumer_max_requests |-> DEFAULT_HCF_CONSUMER_MAX_REQUESTS,
              hcf_producer_slot_prefix |-> "",
              hcf_producer_number_of_slots |-> DEFAULT_HCF_PRODUCER_NUMBER_OF_SLOTS,
              disk |-> FALSE, custom_store |-> FALSE, max_memory_queue |-> MaxMemory]
    /\ memory_queue = << >>
    /\ disk_queue = << >>
    /\ n_consumed_batches = 0
    /\ n_consumed_requests = 0
    /\ delay_left = -1
    /\ n_made = 0
    /\ remote = RemoteInit
    /\ gn = GnIdle
    /\ call = NoCall
    /\ last = NoLast
    /\ since_pull = -1
    /\ last_read = NoRead

\* frontier_start(): the settings are read and the roles created.
FrontierStart(st) ==
    /\ pc = "new"
    /\ pc' = "idle"
    /\ cfg' = [cfg EXCEPT !.producer = st.producer, !.consumer = st.consumer,
                          !.hcf_consumer_max_batches = st.max_batches,
                          !.hcf_consumer_max_requests = st.max_requests,
                          !.hcf_producer_number_of_slots = NSlots,
                          !.disk = st.disk, !.custom_store = st.custom_store]
    /\ batch_size' = st.batch_size
    /\ last' = Ended("frontier_start", "returned", << >>)
    /\ UNCHANGED <<links_count, links_to_flush_count, m_call, m_ret, hcf_calls, log,
                   memory_queue, disk_queue, n_consumed_batches, n_consumed_requests,
                   delay_left, n_made, remote, gn, call, since_pull, last_read>>

\* add_seeds(seeds)
AddSeeds(k) ==
    /\ pc = "idle"
    /\ n_made + k <= MaxLinks
    /\ memory_queue' = memory_queue \o [j \in 1..k |-> Request("memory", n_made + j, 0)]
    /\ n_made' = n_made + k
    /\ call' = NoCall
    /\ last' = Ended("add_seeds", "returned", << >>)
    /\ last_read' = NoRead
    /\ UNCHANGED <<mvars, log, pc, cfg, disk_queue, n_consumed_batches, n_consumed_requests,
                   delay_left, remote, gn, since_pull>>

\* page_crawled(response, links)
PageCrawled(links) ==
    /\ pc = "idle"
    /\ n_made' = n_made + Len(links)
    /\ \E r \in {page_crawled(links)} :
       /\ links_count' = r.acc.lc
       /\ links_to_flush_count' = r.acc.fc
       /\ m_call' = r.acc.m_call
       /\ m_ret' = r.acc.m_ret
       /\ hcf_calls' = r.acc.calls
       /\ memory_queue' = r.mem
       /\ disk_queue' = r.disk
       /\ last' = Ended("page_crawled", IF r.exc = "" THEN "returned" ELSE r.exc, << >>)
    /\ call' = NoCall
    /\ last_read' = NoRead
    /\ UNCHANGED <<batch_size, log, pc, cfg, n_consumed_batches, n_consumed_requests,
                   delay_left, remote, gn, since_pull>>

\* The clock advances between two calls of the backend.
Tick ==
    /\ pc = "idle"
    /\ delay_left >= 0 \/ (since_pull >= 0 /\ since_pull <= DELAY_HS_READ)
    /\ delay_left' = DelayAfter(TickStep)
    /\ since_pull' = SincePullAfter(TickStep)
    /\ call' = NoCall
    /\ last' = NoLast
    /\ last_read' = NoRead
    /\ UNCHANGED <<mvars, log, pc, cfg, memory_queue, disk_queue, n_consumed_batches,
                   n_consumed_requests, n_made, remote, gn>>

\* get_next_requests(max_next_requests) up to its first read of the remote queue,
\* or to its return when it issues none: the quota clamp (lines 304-305), the
\* local queues (307-315), the test of the pull (317-318), the first test of the
\* pull loop (329-330) and lines 319-323.
GetNextCall(max_next_requests) ==
    /\ pc = "idle"
    /\ LET limit == Clamp(max_next_requests)
           d == DrainLocal(memory_queue, disk_queue, limit)
           pulls == PullsFromHs(d.requests)
           g == [GnIdle EXCEPT !.max_next_requests = limit,
                               !.requests = d.requests,
                               !.n_min_requests = limit - Len(d.requests),
                               !.data = TRUE]
           reads == pulls /\ HsLoopTest(g, n_consumed_batches, n_consumed_requests)
       IN
       /\ reads => n_consumed_batches < MaxConsumed /\ n_consumed_requests < MaxConsumed
       /\ memory_queue' = d.mem
       /\ disk_queue' = d.disk
       /\ call' = [max_next_requests |-> max_next_requests,
                   n_consumed_requests |-> n_consumed_requests,
                   read_issued |-> reads, last_nr |-> 0]
       /\ IF reads
          THEN /\ pc' = "read"
               /\ gn' = [g EXCEPT !.data = FALSE]
               /\ last' = NoLast
               /\ UNCHANGED delay_left
          ELSE /\ pc' = "idle"
               /\ gn' = GnIdle
               /\ last' = Ended("get_next_requests", "returned", d.requests)
               /\ delay_left' = IF pulls THEN DelayAfterPull ELSE delay_left
    /\ last_read' = NoRead
    /\ UNCHANGED <<mvars, log, cfg, n_consumed_batches, n_consumed_requests,
                   n_made, remote, since_pull>>

\* One pass of the pull loop (lines 331-354): consumer.read with its retries, the
\* scan of the batches read, consumer.delete with its retries; then the test of
\* the loop again (329-330) and either the next pass or the return of
\* _get_requests_from_hs and of get_next_requests (356, 319-323).  `rplan` and
\* `dplan` are the remote's answers to the attempts, k the number of batches a
\* read that succeeds returns.
HsRead(rplan, k, dplan) ==
    /\ pc = "read"
    /\ \E rd \in {read(rplan, SubSeq(remote, 1, k))} :
       \E st \in {ScanBatches(rd.ret, 1,
                      [return_requests |-> gn.return_requests,
                       consumed_batches_ids |-> gn.consumed_batches_ids,
                       n_consumed_requests |-> n_consumed_requests,
                       data |-> gn.data])} :
       \E dl \in {IF rd.exc = "" /\ st.consumed_batches_ids # << >>
                   THEN delete(dplan, remote, st.consumed_batches_ids)
                   ELSE [remote |-> remote, end |-> "none", attempts |-> 0, slept |-> 0,
                         exc |-> ""]} :
       LET exc == IF rd.exc # "" THEN rd.exc ELSE dl.exc
           nr == st.n_consumed_requests - n_consumed_requests
           nb == n_consumed_batches + Len(st.consumed_batches_ids)
           g == [gn EXCEPT !.return_requests = st.return_requests,
                           !.consumed_batches_ids = << >>,
                           !.data = FALSE]
           again == /\ exc = ""
                    /\ HsLoopTest([g EXCEPT !.data = st.data], nb, st.n_consumed_requests)
       IN
       /\ dl.end # "none" \/ dplan = << "ok" >>
       /\ again => nb < MaxConsumed /\ st.n_consumed_requests < MaxConsumed
       /\ n_consumed_requests' = st.n_consumed_requests
       /\ n_consumed_batches' = IF exc = "" THEN nb ELSE n_consumed_batches
       /\ remote' = dl.remote
       /\ last_read' = [end |-> rd.end, nb |-> Len(rd.ret), nr |-> nr, del_end |-> dl.end]
       /\ call' = [call EXCEPT !.last_nr = nr]
       /\ IF exc # ""
          THEN \* the exception leaves get_next_requests
               /\ pc' = "idle"
               /\ gn' = GnIdle
               /\ last' = Ended("get_next_requests", exc, << >>)
               /\ delay_left' = DelayAfter(rd.slept + dl.slept)
               /\ since_pull' = SincePullAfter(rd.slept + dl.slept)
          ELSE IF again
          THEN /\ pc' = "read"
               /\ gn' = g
               /\ delay_left' = DelayAfter(rd.slept + dl.slept)
               /\ since_pull' = SincePullAfter(rd.slept + dl.slept)
               /\ UNCHANGED last
          ELSE /\ pc' = "idle"
               /\ gn' = GnIdle
               /\ last' = Ended("get_next_requests", "returned",
                                gn.requests \o st.return_requests)
               /\ delay_left' = DelayAfterPull
               /\ since_pull' = 0
    /\ UNCHANGED <<mvars, log, cfg, memory_queue, disk_queue, n_made>>

\* frontier_stop(): the producer's flush and close (lines 265-269); closing the
\* disk queue and the consumer (262-263, 271-272) changes none of the variables.
FrontierStop ==
    /\ pc = "idle"
    /\ pc' = "stopped"
    /\ IF cfg.producer
       THEN LET r == flush(links_to_flush_count, None) IN
            /\ links_to_flush_count' = r.fc
            /\ m_call' = [op |-> "flush", slot |-> None]
            /\ m_ret' = r.ret
            /\ hcf_calls' = r.calls \o << [op |-> "close", slot |-> None] >>
       ELSE UNCHANGED <<links_to_flush_count, m_call, m_ret, hcf_calls>>
    /\ call' = NoCall
    /\ last' = Ended("frontier_stop", "returned", << >>)
    /\ last_read' = NoRead
    /\ UNCHANGED <<batch_size, links_count, log, cfg, memory_queue, disk_queue,
                   n_consumed_batches, n_consumed_requests, delay_left, n_made, remote,
                   gn, since_pull>>

\* The links of one page: k links, each serializable or not (sers), each kept or
\* not by a custom HCF_STORE (stores).
Pages(sers, stores) ==
    UNION {{[j \in 1..k |-> Link(n_made + j, ser[j], store[j])] :
               ser \in [1..k -> sers], store \in [1..k -> stores]} :
           k \in 1..Min(MaxPage, MaxLinks - n_made)}

\* The batches one read may return: any number of the oldest ones, none when the
\* slot is empty.
ReadSizes == IF remote = << >> THEN {0} ELSE 1..Len(remote)

(***************************************************************************)
(* The consumer: a crawler that feeds the local queues and asks for        *)
(* requests, while the clock advances.                                     *)
(***************************************************************************)
Next ==
    \/ \E st \in Settings : FrontierStart(st)
    \/ \E k \in 1..MaxPage : AddSeeds(k)
    \/ \E links \in Pages({TRUE}, {FALSE}) : PageCrawled(links)
    \/ \E max_next_requests \in 0..MaxNext : GetNextCall(max_next_requests)
    \/ \E rplan \in Plans, dplan \in Plans : \E k \in ReadSizes : HsRead(rplan, k, dplan)
    \/ Tick

Spec == Init /\ [][Next]_vars

(***************************************************************************)
(* The HCFManager called directly: any interleaving of add_request(slot),  *)
(* flush(slot) and flush().                                                *)
(***************************************************************************)
MInit ==
    /\ batch_size \in 0..MaxBatchSize
    /\ links_count = [s \in Slots |-> 0]
    /\ links_to_flush_count = [s \in Slots |-> 0]
    /\ m_call = [op |-> "init", slot |-> None]
    /\ m_ret = 0
    /\ hcf_calls = << >>
    /\ log = TRUE
    /\ pc = "new"
    /\ cfg = [producer |-> TRUE]
    /\ memory_queue = << >>
    /\ disk_queue = << >>
    /\ n_consumed_batches = 0
    /\ n_consumed_requests = 0
    /\ delay_left = 0 - 1
    /\ n_made = 0
    /\ remote = << >>
    /\ gn = GnIdle
    /\ call = NoCall
    /\ last = NoLast
    /\ since_pull = 0 - 1
    /\ last_read = NoRead

MAddRequest(slot) ==
    /\ links_count[slot] < MaxLinksPerSlot
    /\ LET r == add_request(batch_size, links_count, links_to_flush_count, slot) IN
       /\ links_count' = r.lc
       /\ links_to_flush_count' = r.fc
       /\ m_ret' = r.ret
       /\ hcf_calls' = r.calls
    /\ m_call' = [op |-> "add_request", slot |-> slot]
    /\ UNCHANGED <<batch_size, bvars>>

MFlush(slot) ==
    /\ LET r == flush(links_to_flush_count, slot) IN
       /\ links_to_flush_count' = r.fc
       /\ m_ret' = r.ret
       /\ hcf_calls' = r.calls
    /\ m_call' = [op |-> "flush", slot |-> slot]
    /\ UNCHANGED <<batch_size, links_count, bvars>>

MNext ==
    \/ \E slot \in Slots : MAddRequest(slot)
    \/ \E slot \in Slots \cup {None} : MFlush(slot)

SpecManager == MInit /\ [][MNext]_vars

(***************************************************************************)
(* HCFManager.read and HCFManager.delete called directly against a remote  *)
(* that answers the attempts as `outcomes` says.                           *)
(***************************************************************************)
\* f transport errors, their kinds in turn, then t.
MixedPlan(f, t) ==
    [j \in 1..(f + 1) |->
        IF j <= f
        THEN IF j % 3 = 1 THEN "ReadTimeout"
             ELSE IF j % 3 = 2 THEN "ConnectionError" ELSE "RequestException"
        ELSE t]

RetryPlans ==
    {Plan(f, e, t) : f \in 0..hcf_retries, e \in TransportErrors, t \in {"ok", "other"}}
        \cup {MixedPlan(f, t) : f \in 2..hcf_retries, t \in {"ok", "other"}}

RInit ==
    /\ batch_size = 0
    /\ links_count = [s \in Slots |-> 0]
    /\ links_to_flush_count = [s \in Slots |-> 0]
    /\ m_call = [op |-> "init", slot |-> None]
    /\ m_ret = 0
    /\ hcf_calls = << >>
    /\ log \in BOOLEAN
    /\ pc = "new"
    /\ cfg = [consumer |-> TRUE]
    /\ memory_queue = << >>
    /\ disk_queue = << >>
    /\ n_consumed_batches = 0
    /\ n_consumed_requests = 0
    /\ delay_left = 0 - 1
    /\ n_made = 0
    /\ remote = RemoteInit
    /\ gn = GnIdle
    /\ call = NoCall
    /\ last = NoLast
    /\ since_pull = 0 - 1
    /\ last_read = NoRead

\* read(slot, mincount): the remote answers a successful attempt with its k
\* oldest batches.
MRead(outcomes, k) ==
    /\ m_call' = [op |-> "read", slot |-> None, outcomes |-> outcomes,
                  response |-> SubSeq(remote, 1, k)]
    /\ m_ret' = read(outcomes, SubSeq(remote, 1, k))
    /\ UNCHANGED <<batch_size, links_count, links_to_flush_count, hcf_calls, bvars>>

\* delete(slot, ids)
MDelete(outcomes, ids) ==
    /\ LET r == delete(outcomes, remote, ids) IN
       /\ remote' = r.remote
       /\ m_ret' = [end |-> r.end, attempts |-> r.attempts, slept |-> r.slept,
                    exc |-> r.exc]
    /\ m_call' = [op |-> "delete", slot |-> None, outcomes |-> outcomes, ids |-> ids,
                  before |-> remote]
    /\ UNCHANGED <<batch_size, links_count, links_to_flush_count, hcf_calls, log, pc, cfg,
                   memory_queue, disk_queue, n_consumed_batches, n_consumed_requests,
                   delay_left, n_made, gn, call, last, since_pull, last_read>>

RNext ==
    \/ \E outcomes \in RetryPlans : \E k \in 0..Len(remote) : MRead(outcomes, k)
    \/ \E outcomes \in RetryPlans :
         \E k \in 1..NBatches : MDelete(outcomes, [j \in 1..k |-> j])

SpecRetry == RInit /\ [][RNext]_vars

(***************************************************************************)
(* C1.  get_next_requests and its limit.                                   *)
(***************************************************************************)
\* The limit of a get_next_requests call: its argument, and with a request quota
\* no more than the quota less the requests consumed before the call.
CallLimit ==
    IF cfg.hcf_consumer_max_requests > 0
    THEN Min(call.max_next_requests,
             cfg.hcf_consumer_max_requests - call.n_consumed_requests)
    ELSE call.max_next_requests

GetNextReturned == last.op = "get_next_requests" /\ last.outcome = "returned"

\* C1 as stated: every response of get_next_requests(maxRequests) has at most
\* maxRequests items and, with a request quota set, at most (quota - requests
\* consumed before the call) items, whatever the remote read returns.
C1_ResponseWithinLimit ==
    GetNextReturned =>
        /\ Len(last.resp) <= call.max_next_requests
        /\ cfg.hcf_consumer_max_requests > 0 =>
               Len(last.resp) <= cfg.hcf_consumer_max_requests - call.n_consumed_requests

\* C1 amended: a call that issues no read returns at most max(0, limit) items,
\* limit being min(maxRequests, quota - consumed); a call that reads returns at
\* most limit - 1 + r items, r the requests built from its last read response
\* (every read response is appended whole).
C1_ResponseWithinLimitPlusLastRead ==
    GetNextReturned =>
        IF call.read_issued
        THEN Len(last.resp) <= CallLimit - 1 + call.last_nr
        ELSE Len(last.resp) <= Max(CallLimit, 0)

\* A call that read the remote queue and returned more than maxRequests items.
C1_Witness ==
    /\ GetNextReturned
    /\ call.read_issued
    /\ Len(last.resp) > call.max_next_requests
    /\ last.resp[1].tier = "memory"

(***************************************************************************)
(* C2.  The quotas and the consumption counters.                           *)
(***************************************************************************)
\* C2 as stated: the quotas are ceilings of the counters.
C2_QuotasAreCeilings ==
    /\ cfg.hcf_consumer_max_batches > 0 =>
           n_consumed_batches <= cfg.hcf_consumer_max_batches
    /\ cfg.hcf_consumer_max_requests > 0 =>
           n_consumed_requests <= cfg.hcf_consumer_max_requests

\* C2 amended: the quotas are stop conditions.  After a read response has been
\* consumed, each counter with a quota is at most quota - 1 plus what that one
\* response held (its batches, the requests built from it).
C2_QuotaOvershootWithinOneRead ==
    last_read.end = "return" =>
        /\ cfg.hcf_consumer_max_batches > 0 =>
               n_consumed_batches <= cfg.hcf_consumer_max_batches - 1 + last_read.nb
        /\ cfg.hcf_consumer_max_requests > 0 =>
               n_consumed_requests <= cfg.hcf_consumer_max_requests - 1 + last_read.nr

\* A read response that took the batch counter past its quota.
C2_Witness ==
    /\ last_read.end = "return"
    /\ last_read.del_end = "return"
    /\ cfg.hcf_consumer_max_batches > 0
    /\ n_consumed_batches > cfg.hcf_consumer_max_batches

(***************************************************************************)
(* C3.  No read once a quota is exhausted.                                 *)
(***************************************************************************)
QuotaExhausted ==
    \/ cfg.hcf_consumer_max_batches > 0
         /\ n_consumed_batches >= cfg.hcf_consumer_max_batches
    \/ cfg.hcf_consumer_max_requests > 0
         /\ n_consumed_requests >= cfg.hcf_consumer_max_requests

\* C3: get_next_requests is never about to read the remote queue while a quota
\* is exhausted.
C3_NoReadOnceQuotaExhausted == pc = "read" => ~QuotaExhausted

\* A quota is exhausted, batches wait in the remote queue, the local queues are
\* empty and the throttle has elapsed: get_next_requests(n > 0) returned nothing
\* and read nothing.
C3_Witness ==
    /\ GetNextReturned
    /\ call.max_next_requests > 0
    /\ ~call.read_issued
    /\ last.resp = << >>
    /\ QuotaExhausted
    /\ remote # << >>
    /\ memory_queue = << >> /\ disk_queue = << >>
    /\ delay_left < 0 /\ since_pull > DELAY_HS_READ

(***************************************************************************)
(* C4.  The order of the response.                                         *)
(***************************************************************************)
\* The items of a read response, in read order.
RECURSIVE ItemsOf(_)
ItemsOf(batches) ==
    IF batches = << >> THEN << >>
    ELSE Head(batches).requests \o ItemsOf(Tail(batches))

\* The requests a read response yields: its accepted items, in read order.
Yield(batches) ==
    LET kept == SelectSeq(ItemsOf(batches), LAMBDA x : x.make # "None") IN
    [i \in 1..Len(kept) |-> [tier |-> "hcf", id |-> kept[i].fp, depth |-> 0]]

\* The step that starts a get_next_requests call.
CallStep == pc = "idle" /\ (pc' = "read" \/ last'.op = "get_next_requests")

\* What the call popped from the local queues.
Popped == IF pc' = "read" THEN gn'.requests ELSE last'.resp

\* C4: the response is what was popped from the memory queue, then what was
\* popped from the disk queue, then what the reads yielded, each in its queue's
\* order; the disk queue is popped only once the memory queue is empty.
C4_ResponseOrder ==
    [][/\ CallStep =>
            LET nm == Len(memory_queue) - Len(memory_queue')
                nd == Len(disk_queue) - Len(disk_queue')
            IN  /\ nm >= 0 /\ nd >= 0
                /\ Popped = SubSeq(memory_queue, 1, nm) \o SubSeq(disk_queue, 1, nd)
                /\ memory_queue' = SubSeq(memory_queue, nm + 1, Len(memory_queue))
                /\ disk_queue' = SubSeq(disk_queue, nd + 1, Len(disk_queue))
                /\ nd > 0 => memory_queue' = << >>
       /\ pc = "read" /\ last_read'.end = "return" =>
            LET got == gn.return_requests \o Yield(SubSeq(remote, 1, last_read'.nb)) IN
            IF pc' = "read"
            THEN gn'.requests = gn.requests /\ gn'.return_requests = got
            ELSE last'.outcome = "returned" => last'.resp = gn.requests \o got
      ]_vars

\* A response that holds a request of each tier.
C4_Witness ==
    /\ GetNextReturned
    /\ Len(last.resp) >= 3
    /\ last.resp[1].tier = "memory"
    /\ last.resp[2].tier = "disk"
    /\ last.resp[3].tier = "hcf"

(***************************************************************************)
(* C5.  The polling throttle.                                              *)
(***************************************************************************)
\* C5 as stated: no read is issued less than DELAY_HS_READ seconds after a
\* call that pulled from the remote queue returned.
C5_NoReadWithinDelay ==
    pc = "read" => since_pull < 0 \/ since_pull >= DELAY_HS_READ

\* C5 amended: a call that popped a request from the local queues issues no read
\* until more than DELAY_HS_READ seconds have passed since the last call that
\* read the remote queue returned.
C5_NoReadWithinDelayAfterLocal ==
    pc = "read" /\ gn.requests # << >> => since_pull < 0 \/ since_pull > DELAY_HS_READ

\* A call that popped local requests and reads, the delay over.
C5_Witness ==
    /\ pc = "read"
    /\ gn.requests # << >>
    /\ since_pull > DELAY_HS_READ
    /\ delay_left < 0

(***************************************************************************)
(* C6.  add_request.                                                       *)
(***************************************************************************)
\* C6: add_request(slot) forwards the record to the remote add and counts it in
\* both counters; when a batch size is set and the flush counter has reached it,
\* it flushes the slot once, returns the number flushed and leaves the flush
\* counter at 0; otherwise it returns 0 and flushes nothing.
C6_AddRequest ==
    [][m_call'.op = "add_request" =>
         LET s == m_call'.slot
             n == links_to_flush_count[s] + 1
             add == [op |-> "add", slot |-> s]
         IN  /\ links_count' = [links_count EXCEPT ![s] = links_count[s] + 1]
             /\ IF batch_size # 0 /\ n >= batch_size
                THEN /\ hcf_calls' = << add, [op |-> "writer.flush", slot |-> s] >>
                     /\ m_ret' = n
                     /\ links_to_flush_count' = [links_to_flush_count EXCEPT ![s] = 0]
                ELSE /\ hcf_calls' = << add >>
                     /\ m_ret' = 0
                     /\ links_to_flush_count' = [links_to_flush_count EXCEPT ![s] = n]
      ]_vars

\* An add_request that flushed its slot, not the first batch of the slot.
C6_Witness ==
    /\ m_call.op = "add_request"
    /\ batch_size > 1
    /\ m_ret = batch_size
    /\ Len(hcf_calls) = 2
    /\ links_to_flush_count[m_call.slot] = 0
    /\ links_count[m_call.slot] > batch_size

(***************************************************************************)
(* C7.  The counters.                                                      *)
(***************************************************************************)
\* C7: for every slot, 0 <= links_to_flush_count <= links_count.
C7_FlushCountWithinLinksCount ==
    \A s \in Slots :
        0 <= links_to_flush_count[s] /\ links_to_flush_count[s] <= links_count[s]

\* A slot flushed once and added to since.
C7_Witness ==
    \E s \in Slots : 0 < links_to_flush_count[s] /\ links_to_flush_count[s] < links_count[s]

(***************************************************************************)
(* C8.  flush and its frame.                                               *)
(***************************************************************************)
\* C8: flush(None) returns the sum of the flush counters and zeroes them all with
\* one queue-wide remote flush; flush(s) returns the flush counter of s, flushes
\* the writer of s alone and zeroes that counter alone; neither changes a link
\* counter.
C8_FlushFrame ==
    [][m_call'.op = "flush" =>
         LET s == m_call'.slot IN
         /\ links_count' = links_count
         /\ IF s = None
            THEN /\ m_ret' = SumValues(links_to_flush_count)
                 /\ links_to_flush_count' = [t \in Slots |-> 0]
                 /\ m_ret' > 0 => hcf_calls' = << [op |-> "flush", slot |-> None] >>
            ELSE /\ m_ret' = links_to_flush_count[s]
                 /\ links_to_flush_count' = [links_to_flush_count EXCEPT ![s] = 0]
                 /\ m_ret' > 0 => hcf_calls' = << [op |-> "writer.flush", slot |-> s] >>
      ]_vars

\* A flush of one slot that flushed links while another slot has links pending.
C8_Witness ==
    /\ m_call.op = "flush"
    /\ m_call.slot # None
    /\ m_ret > 0
    /\ hcf_calls # << >>
    /\ \E t \in Slots : links_to_flush_count[t] > 0

(***************************************************************************)
(* C9.  flush is idempotent.                                               *)
(***************************************************************************)
\* The flush counters flush(slot) reads.
Pending(slot) ==
    IF slot = None THEN {links_to_flush_count[t] : t \in Slots}
    ELSE {links_to_flush_count[slot]}

\* C9: a flush that finds its counters at zero returns 0, makes no remote call
\* and changes no counter; so does a flush that follows a flush of the same slot
\* or of all slots.
C9_FlushIdempotent ==
    [][m_call'.op = "flush" =>
         /\ Pending(m_call'.slot) = {0} =>
              /\ m_ret' = 0
              /\ hcf_calls' = << >>
              /\ UNCHANGED <<links_count, links_to_flush_count>>
         /\ m_call.op = "flush" /\ m_call.slot \in {None, m_call'.slot} =>
              /\ m_ret' = 0
              /\ hcf_calls' = << >>
              /\ UNCHANGED <<links_count, links_to_flush_count>>
      ]_vars

\* A flush with nothing to do on a slot that has had links.
C9_Witness ==
    /\ m_call.op = "flush"
    /\ m_call.slot # None
    /\ m_ret = 0
    /\ hcf_calls = << >>
    /\ links_count[m_call.slot] > 0

(***************************************************************************)
(* C10.  read and its retries.                                             *)
(***************************************************************************)
\* Attempt j (from 1) is the first the remote answers with success, after
\* transport errors only.
FirstSuccess(outcomes, j) ==
    /\ j <= Len(outcomes)
    /\ outcomes[j] = "ok"
    /\ \A i \in 1..(j - 1) : outcomes[i] \in TransportErrors

\* C10: read makes at most 10 attempts; it returns the remote result of the first
\* attempt that succeeds and stops there; when 10 attempts meet transport errors
\* it returns an empty sequence and raises nothing.
C10_ReadRetries ==
    m_call.op = "read" =>
        /\ m_ret.attempts <= hcf_retries
        /\ \A j \in 1..hcf_retries :
               FirstSuccess(m_call.outcomes, j) =>
                   /\ m_ret.end = "return"
                   /\ m_ret.attempts = j
                   /\ m_ret.ret = m_call.response
        /\ (/\ Len(m_call.outcomes) >= hcf_retries
            /\ \A i \in 1..hcf_retries : m_call.outcomes[i] \in TransportErrors) =>
               /\ m_ret.end = "exhausted"
               /\ m_ret.attempts = hcf_retries
               /\ m_ret.ret = << >>
               /\ m_ret.exc = ""

(***************************************************************************)
(* C11.  delete and its retries.                                           *)
(***************************************************************************)
\* The batches of `batches` whose id is not among ids.
Without(batches, ids) ==
    SelectSeq(batches, LAMBDA b : b.id \notin {ids[k] : k \in 1..Len(ids)})

\* C11: delete makes at most 10 attempts and stops at the first that succeeds,
\* the batches named then gone from the slot; when 10 attempts meet transport
\* errors it returns normally and every batch is still in the slot.
C11_DeleteRetries ==
    m_call.op = "delete" =>
        /\ m_ret.attempts <= hcf_retries
        /\ \A j \in 1..hcf_retries :
               FirstSuccess(m_call.outcomes, j) =>
                   /\ m_ret.end = "return"
                   /\ m_ret.attempts = j
                   /\ remote = Without(m_call.before, m_call.ids)
        /\ (/\ Len(m_call.outcomes) >= hcf_retries
            /\ \A i \in 1..hcf_retries : m_call.outcomes[i] \in TransportErrors) =>
               /\ m_ret.end = "exhausted"
               /\ m_ret.attempts = hcf_retries
               /\ m_ret.exc = ""
               /\ remote = m_call.before


(***************************************************************************)
(* The crawler that finds links: pages of links that are serializable or   *)
(* not, kept by HCF_STORE or not, handed to a backend with or without a    *)
(* producer and a disk queue; requests asked back, the crawl stopped.      *)
(***************************************************************************)
\* The batch size the producer is given.
CrawlBatchSize == 1

\* The HCF_* settings of a process that consumes no slot.
CrawlSettings ==
    [producer : BOOLEAN, consumer : {FALSE}, batch_size : {0, CrawlBatchSize},
     max_batches : {0}, max_requests : {0}, disk : BOOLEAN, custom_store : BOOLEAN]

CrawlNext ==
    \/ \E st \in CrawlSettings : FrontierStart(st)
    \/ \E k \in 1..MaxPage : AddSeeds(k)
    \/ \E links \in Pages(BOOLEAN, BOOLEAN) : PageCrawled(links)
    \/ \E max_next_requests \in 0..MaxNext : GetNextCall(max_next_requests)
    \/ FrontierStop

SpecCrawl == Init /\ [][CrawlNext]_vars

(* C12.  No locally-bound link is lost. *)
\* The places of queue q that hold the request made from link `id`.
Holding(q, id) == {i \in 1..Len(q) : q[i].id = id}

\* A page none of whose links meets the configuration error of _page_crawled.
NoConfigurationError(links) ==
    \A j \in 1..Len(links) : hcf_store(links[j]) => cfg.producer

\* C12: after page_crawled every locally-bound link of the page is in exactly one
\* of the memory queue and the disk queue, and a link that is not serializable is
\* in the memory queue, whatever the size of the memory queue and whether or not
\* a disk queue is configured.
C12_LocalLinkNeverLost ==
    [][\A links \in Pages(BOOLEAN, BOOLEAN) :
           (PageCrawled(links) /\ NoConfigurationError(links)) =>
               \A j \in 1..Len(links) :
                   ~hcf_store(links[j]) =>
                       /\ Cardinality(Holding(memory_queue', links[j].id))
                            + Cardinality(Holding(disk_queue', links[j].id)) = 1
                       /\ ~links[j].ser => Holding(memory_queue', links[j].id) # {}]_vars

(* C13.  The split of a page between the memory queue and the disk queue. *)
\* Links as the requests the memory queue is given (depth incremented) and as
\* those the disk queue is given.
AsMemory(links) ==
    [j \in 1..Len(links) |-> Request("memory", links[j].id, links[j].depth + 1)]

AsDisk(links) ==
    [j \in 1..Len(links) |-> Request("disk", links[j].id, links[j].depth)]

\* The number of the k links of a page that are for the memory queue.
MemoryShare(k) ==
    IF cfg.disk THEN Min(k, Max(0, cfg.max_memory_queue - Len(memory_queue))) ELSE k

\* A page whose links are all locally bound and, with a disk queue, serializable.
LocalPage(links) ==
    \A j \in 1..Len(links) : ~hcf_store(links[j]) /\ (cfg.disk => links[j].ser)

\* C13: page_crawled appends the first MemoryShare(k) links of a page of k
\* locally-bound links to the memory queue, in order, and the others to the disk
\* queue, in order; without a disk queue all k go to the memory queue; with one
\* the memory queue does not grow beyond max_memory_queue.
C13_PageSplit ==
    [][\A links \in Pages(BOOLEAN, BOOLEAN) :
           (PageCrawled(links) /\ LocalPage(links)) =>
               LET k == Len(links)
                   n == MemoryShare(k)
               IN  /\ last'.outcome = "returned"
                   /\ memory_queue' = memory_queue \o AsMemory(SubSeq(links, 1, n))
                   /\ disk_queue' = disk_queue \o AsDisk(SubSeq(links, n + 1, k))
                   /\ cfg.disk =>
                          Len(memory_queue') <= Max(Len(memory_queue), cfg.max_memory_queue)]_vars

\* A page of two links was split: the first filled the memory queue, the second
\* went to the disk queue.
C13_Witness ==
    /\ last.op = "page_crawled" /\ last.outcome = "returned"
    /\ cfg.disk
    /\ n_made >= 2
    /\ memory_queue # << >> /\ disk_queue # << >>
    /\ Len(memory_queue) = cfg.max_memory_queue
    /\ memory_queue[Len(memory_queue)] = Request("memory", n_made - 1, 1)
    /\ disk_queue[Len(disk_queue)] = Request("disk", n_made, 0)

(* C14.  A producer-bound link without a producer. *)
\* HCF_STORE keeps one of the links for the remote frontier.
SomeStored(links) ==
    \E j \in 1..Len(links) : cfg.custom_store /\ links[j].store

\* C14: when HCF_STORE keeps a link of the page and no producer is configured,
\* page_crawled ends with AssertionError, calls the remote frontier for nothing,
\* and leaves both queues and every counter as they were.
C14_NoProducerIsFatal ==
    [][\A links \in Pages(BOOLEAN, BOOLEAN) :
           (PageCrawled(links) /\ SomeStored(links) /\ ~cfg.producer) =>
               /\ last'.op = "page_crawled"
               /\ last'.outcome = "AssertionError"
               /\ hcf_calls' = << >>
               /\ UNCHANGED <<memory_queue, disk_queue, links_count, links_to_flush_count,
                              n_consumed_batches, n_consumed_requests>>]_vars

\* page_crawled failed on a page with a kept link and a local one.
C14_Witness ==
    /\ last.op = "page_crawled" /\ last.outcome = "AssertionError"
    /\ cfg.custom_store /\ ~cfg.producer
    /\ n_made >= 2
    /\ memory_queue = << >> /\ disk_queue = << >>

(***************************************************************************)
(* The default slot callback on its own: requests with fingerprints        *)
(* written in base 16, with or without a slot and a number of slots of     *)
(* their own, in a process with either prefix and number of slots.         *)
(***************************************************************************)
\* The largest number a fingerprint stands for, and the largest number of slots.
MaxFp == 20
MaxSlotCount == 11

\* The base-16 digits of v >= 0, as hex(v) writes them.
RECURSIVE Hex(_)
Hex(v) ==
    IF v < 16 THEN << HexDigits[v + 1] >>
    ELSE Hex(v \div 16) \o << HexDigits[(v % 16) + 1] >>

\* The meta of a request whose fingerprint stands for v, with `zeros` leading
\* zeros; slot is None or the request's own slot, n is 0 or the request's own
\* number of slots.
Meta(v, zeros, slot, n) ==
    LET fp == [j \in 1..zeros |-> "0"] \o Hex(v) IN
    IF slot # None /\ n # 0
    THEN [fingerprint |-> fp, hcf_producer_slot |-> slot, hcf_producer_number_of_slots |-> n]
    ELSE IF slot # None THEN [fingerprint |-> fp, hcf_producer_slot |-> slot]
    ELSE IF n # 0 THEN [fingerprint |-> fp, hcf_producer_number_of_slots |-> n]
    ELSE [fingerprint |-> fp]

SInit ==
    /\ batch_size = 0
    /\ links_count = [s \in Slots |-> 0]
    /\ links_to_flush_count = [s \in Slots |-> 0]
    /\ m_call = [op |-> "init", slot |-> None]
    /\ m_ret = 0
    /\ hcf_calls = << >>
    /\ log = TRUE
    /\ pc = "idle"
    /\ \E prefix \in {"", "s"} :
       \E n \in {NSlots, DEFAULT_HCF_PRODUCER_NUMBER_OF_SLOTS} :
           cfg = [producer |-> TRUE, hcf_producer_slot_prefix |-> prefix,
                  hcf_producer_number_of_slots |-> n]
    /\ memory_queue = << >>
    /\ disk_queue = << >>
    /\ n_consumed_batches = 0
    /\ n_consumed_requests = 0
    /\ delay_left = 0 - 1
    /\ n_made = 0
    /\ remote = << >>
    /\ gn = GnIdle
    /\ call = NoCall
    /\ last = NoLast
    /\ since_pull = 0 - 1
    /\ last_read = NoRead

\* self.hcf_get_producer_slot(request), the default callback; m_call keeps the
\* request's meta and the number its fingerprint was written from.
SlotCall(v, zeros, slot, n) ==
    /\ m_call' = [op |-> "_producer_get_slot_callback", slot |-> None,
                  meta |-> Meta(v, zeros, slot, n), value |-> v]
    /\ m_ret' = _producer_get_slot_callback(Meta(v, zeros, slot, n))
    /\ UNCHANGED <<batch_size, links_count, links_to_flush_count, hcf_calls, log, bvars>>

SNext ==
    \E v \in 0..MaxFp, zeros \in 0..1, slot \in {None, "mine"},
       n \in {0, MaxSlotCount - 1, MaxSlotCount} :
        SlotCall(v, zeros, slot, n)

SpecSlot == SInit /\ [][SNext]_vars

(* C15.  The default slot assignment. *)
\* The number of slots a call counts with.
SlotCount(meta) ==
    IF "hcf_producer_number_of_slots" \in DOMAIN meta
    THEN meta.hcf_producer_number_of_slots ELSE cfg.hcf_producer_number_of_slots

HasSlot(meta) == "hcf_producer_slot" \in DOMAIN meta

\* C15: the callback returns the request's own hcf_producer_slot when it carries
\* one; otherwise the prefix followed by str(k), k the fingerprint read in base 16
\* modulo the number of slots n, 0 <= k < n; and two calls in a row with the same
\* fingerprint and the same n return the same slot.
C15_SlotAssignment ==
    [][m_call'.op = "_producer_get_slot_callback" =>
          LET meta == m_call'.meta
              n == SlotCount(meta)
              k == m_call'.value % n
          IN  /\ HasSlot(meta) => m_ret' = meta.hcf_producer_slot
              /\ ~HasSlot(meta) =>
                    /\ k >= 0 /\ k < n
                    /\ m_ret' = cfg.hcf_producer_slot_prefix \o Str(k)
              /\ (/\ m_call.op = "_producer_get_slot_callback"
                  /\ ~HasSlot(meta) /\ ~HasSlot(m_call.meta)
                  /\ m_call.meta.fingerprint = meta.fingerprint
                  /\ SlotCount(m_call.meta) = n) => m_ret' = m_ret]_vars

\* Fingerprint "014" (20), 11 slots of the request's own, prefix "s": slot "s9".
C15_Witness ==
    /\ m_call.op = "_producer_get_slot_callback"
    /\ m_call.meta = [fingerprint |-> << "0", "1", "4" >>, hcf_producer_number_of_slots |-> 11]
    /\ cfg.hcf_producer_slot_prefix = "s"
    /\ cfg.hcf_producer_number_of_slots = DEFAULT_HCF_PRODUCER_NUMBER_OF_SLOTS
    /\ m_ret = "s9"

(* C16.  When the remote pull is entered, and the throttle deadline. *)
\* The condition of the pull, on the step that starts a call.
PullCondition ==
    /\ cfg.consumer
    /\ ~QuotaExhausted
    /\ (Popped = << >> \/ delay_left < 0)

\* The step on which a pull that read the remote queue comes to its end, other
\* than by an error of the remote that is no transport error ("other"), which
\* read and delete let through to the caller.
PullEnds == pc = "read" /\ pc' = "idle" /\ last'.outcome # "other"

\* C16: a call enters the pull exactly when a consumer is configured, no quota
\* is exhausted and either nothing was popped locally or the deadline has passed;
\* a call that does not enter it leaves the deadline as it was; a pull that has
\* been entered leaves the deadline DELAY_HS_READ seconds ahead when it ends,
\* whether it read anything or not.
C16_PullSetsDeadline ==
    [][/\ (CallStep /\ PullCondition) =>
              \/ pc' = "read"
              \/ last'.outcome = "returned" /\ delay_left' = DELAY_HS_READ
       /\ (CallStep /\ ~PullCondition) =>
              /\ pc' = "idle"
              /\ last'.outcome = "returned"
              /\ delay_left' = delay_left
       /\ PullEnds => delay_left' = DELAY_HS_READ]_vars

(* C17.  Remote consumption is at-least-once. *)
\* The elements of a sequence.
Elems(s) == {s[i] : i \in 1..Len(s)}

\* Request r was built from an item of one of `batches`.
InBatches(batches, r) ==
    \E k \in 1..Len(batches) :
        \E i \in 1..Len(batches[k].requests) : batches[k].requests[i].fp = r.id

\* The batches the read of this pass of the pull loop returned.
ReadResponse ==
    IF last_read'.end = "return" THEN SubSeq(remote, 1, last_read'.nb) ELSE << >>

\* C17: each pass of the pull loop that read batches calls delete once, with the
\* ids of all of them: when it succeeds exactly these batches leave the slot,
\* otherwise the slot is as it was; and every request built so far in the call,
\* in this pass or an earlier one, is still held for the response, or is in the
\* response returned, or has its batch still in the slot.
C17_AtLeastOnce ==
    [][pc = "read" =>
          LET collected == gn.return_requests \o Yield(ReadResponse)
              held == IF pc' = "read" THEN gn'.return_requests ELSE last'.resp
          IN  /\ ReadResponse # << >> => last_read'.del_end # "none"
              /\ last_read'.del_end = "return" =>
                     remote' = SubSeq(remote, Len(ReadResponse) + 1, Len(remote))
              /\ last_read'.del_end # "return" => remote' = remote
              /\ \A r \in Elems(collected) :
                     r \in Elems(held) \/ InBatches(remote', r)]_vars

(* C18.  Items HCF_MAKE_REQUEST turns down. *)
\* C18: a pass of the pull loop adds to the consumed-requests counter the number
\* of items of its read response that HCF_MAKE_REQUEST accepted, whatever the
\* number it turned down, and the batch counter counts batches, whatever their
\* items; the requests built from the accepted items, at depth 0 and in read
\* order, come after those built before, in the requests held for the response
\* and in the response returned, which holds no item that was turned down.
C18_RejectedItemsNotCounted ==
    [][pc = "read" =>
          LET built == Yield(ReadResponse)
              collected == gn.return_requests \o built
          IN  /\ n_consumed_requests' = n_consumed_requests + Len(built)
              /\ \A j \in 1..Len(built) : built[j].depth = 0
              /\ pc' = "read" =>
                     /\ gn'.return_requests = collected
                     /\ n_consumed_batches' = n_consumed_batches + Len(ReadResponse)
              /\ (pc' = "idle" /\ last'.outcome = "returned") =>
                     /\ last'.resp = gn.requests \o collected
                     /\ n_consumed_batches' = n_consumed_batches + Len(ReadResponse)]_vars

\* A read returned two batches, one of two accepted items and one of an item
\* turned down: two requests were counted and the response ends with them.
C18_Witness ==
    /\ GetNextReturned
    /\ last_read.end = "return" /\ last_read.nb = 2 /\ last_read.nr = 2
    /\ n_consumed_requests = 2 /\ n_consumed_batches = 2
    /\ Len(last.resp) >= 2
    /\ last.resp[Len(last.resp)] = Request("hcf", 12, 0)

(* C19.  The local queues under the request quota, and without one. *)
\* The request quota is set and reached.
RequestQuotaReached ==
    /\ cfg.hcf_consumer_max_requests > 0
    /\ n_consumed_requests >= cfg.hcf_consumer_max_requests

\* The response a step returns, if it returns one.
Returned ==
    IF last' # last /\ last'.op = "get_next_requests" /\ last'.outcome = "returned"
    THEN Elems(last'.resp) ELSE {}

\* C19: a call made with the request quota reached returns nothing and pops
\* nothing, and the quota once reached stays reached; without a request quota
\* a call for at least one request pops the oldest request of a memory queue that
\* holds one, and a request that has left the local queues stays with the call
\* that popped it until it is in the response that call returns, so that every
\* local request is returned after enough calls.
C19_LocalQueuesAndRequestQuota ==
    [][/\ (CallStep /\ RequestQuotaReached) =>
              /\ pc' = "idle"
              /\ last'.outcome = "returned" /\ last'.resp = << >>
              /\ UNCHANGED <<memory_queue, disk_queue>>
       /\ n_consumed_requests' >= n_consumed_requests
       /\ cfg.hcf_consumer_max_requests = 0 =>
              /\ (CallStep /\ call'.max_next_requests >= 1 /\ memory_queue # << >>) =>
                     Popped # << >> /\ Popped[1] = Head(memory_queue)
              /\ \A r \in Elems(memory_queue) \cup Elems(disk_queue) \cup Elems(gn.requests) :
                     r \in Elems(memory_queue') \cup Elems(disk_queue')
                              \cup Elems(gn'.requests) \cup Returned]_vars

(* C20.  frontier_stop leaves no link unflushed. *)
\* The links added to slot s and not flushed since, after the remote calls
\* `calls` made when there were n of them.
RECURSIVE Unflushed(_, _, _)
Unflushed(calls, s, n) ==
    IF calls = << >> THEN n
    ELSE LET c == Head(calls) IN
         Unflushed(Tail(calls), s,
             IF c.op = "add" /\ c.slot = s THEN n + 1
             ELSE IF c.op = "flush" \/ (c.op = "writer.flush" /\ c.slot = s) THEN 0
             ELSE n)

\* The step frontier_stop takes.
StopStep == pc = "idle" /\ pc' = "stopped"

\* C20: the flush counter of a slot is the number of links added to it and not
\* flushed since, through page_crawled and frontier_stop; frontier_stop with a
\* producer issues one queue-wide flush exactly when some flush counter is not 0,
\* then closes the producer, and leaves every flush counter at 0.
C20_StopFlushesAll ==
    [][/\ last'.op \in {"page_crawled", "frontier_stop"} =>
              \A s \in Slots :
                  links_to_flush_count'[s] = Unflushed(hcf_calls', s, links_to_flush_count[s])
       /\ (StopStep /\ cfg.producer) =>
              /\ hcf_calls' =
                     (IF \E s \in Slots : links_to_flush_count[s] # 0
                      THEN << [op |-> "flush", slot |-> None] >> ELSE << >>)
                     \o << [op |-> "close", slot |-> None] >>
              /\ \A s \in Slots : links_to_flush_count'[s] = 0
              /\ links_count' = links_count]_vars

\* The crawl was stopped with links of two slots unflushed: one flush, then close.
C20_Witness ==
    /\ pc = "stopped"
    /\ cfg.producer
    /\ hcf_calls = << [op |-> "flush", slot |-> None], [op |-> "close", slot |-> None] >>
    /\ m_ret >= 2
    /\ \A s \in Slots : links_count[s] > 0 /\ links_to_flush_count[s] = 0

(* C21.  The pull loop comes to an end. *)
\* What the test of the pull loop (lines 329-330) and the pass it guards read:
\* the slot, the locals of the call, and each consumption counter a quota is set
\* for.
LoopState ==
    << remote, gn,
       IF cfg.hcf_consumer_max_batches > 0 THEN n_consumed_batches ELSE 0,
       IF cfg.hcf_consumer_max_requests > 0 THEN n_consumed_requests ELSE 0 >>

\* A pass of the pull loop that is followed by another.
PassThenPass == pc = "read" /\ pc' = "read"

\* C21: the pull loop issues finitely many reads.  No pass that is followed by
\* another leaves everything the loop reads as it was: the slot has lost a
\* batch, or a request was collected, or a counter with a quota has grown; a
\* pass that did leaves the loop where it started, to make the same pass again
\* for as long as the remote queue answers the same.
C21_PullLoopTerminates ==
    [][PassThenPass => LoopState' # LoopState]_vars
====
